---- MODULE Spec2Model ----
(***************************************************************************)
(* ReClass.NET MCP bridge: the command relay (ReClassClient) with its one  *)
(* TCP connection to the plugin, and the tool dispatch (call_tool) that    *)
(* the hosting event loop runs for every tool invocation.                  *)
(*                                                                         *)
(* Bytes and characters are short strings ("{", "C3", "\n"); a JSON value  *)
(* is a tagged record [t |-> tag, v |-> payload].                          *)
(***************************************************************************)
EXTENDS Integers, Sequences, FiniteSets, TLC

VARIABLES
    sock,        \* ReClassClient.sock: NoSock (None) or Socket
    pc,          \* per handler task: where call_tool / send_command stands
    frame,       \* per handler task: the locals of call_tool and send_command
    wire,        \* bytes that reached the relay's socket and were not read yet
    peerState,   \* the plugin's end of the connection: open, closed (FIN), reset (RST)
    inflight,    \* requests written to the connection whose response was not read
    lastFailed,  \* the last send_command to end hit an error after connecting
    disc         \* the run of consecutive disconnect() calls by the relay's owner

vars == <<sock, pc, frame, wire, peerState, inflight, lastFailed, disc>>

----------------------------------------------------------------------------
(* Bounds of the model *)

\* most bytes the connection may hold that no send_command has returned from yet
\* (unread, or read by a call that is still collecting its response)
MaxWire == 5
\* longest run of consecutive disconnect() calls
MaxDisconnects == 2

\* the handler tasks the hosting event loop may have outstanding at once
Tasks == {"t1", "t2"}

----------------------------------------------------------------------------
(* Python values *)

PyNone == [t |-> "none", v |-> "None"]
JTrue == [t |-> "bool", v |-> "true"]
JFalse == [t |-> "bool", v |-> "false"]
JStr(s) == [t |-> "str", v |-> s]
\* an int, held by its decimal digits
JInt(d) == [t |-> "int", v |-> d]
JObj(f) == [t |-> "object", v |-> f]
JArr == [t |-> "array", v |-> "[]"]
EmptyDict == [k \in {} |-> PyNone]

\* str(x) of lines 324: an int becomes the string of its decimal digits
PyStr(x) == JStr(x.v)

\* Python truthiness, as `if result.get("success")` tests it
Truthy(x) ==
    CASE x.t = "none" -> FALSE
      [] x.t = "bool" -> x.v = "true"
      [] x.t = "str" -> x.v # ""
      [] x.t = "int" -> x.v # "0"
      [] OTHER -> TRUE

IsDict(x) == x.t = "object"

\* dict.get(key, default)
DictGet(x, key, default) == IF key \in DOMAIN x.v THEN x.v[key] ELSE default

----------------------------------------------------------------------------
(* Results of send_command *)

MsgConnect == "Failed to connect to ReClass.NET plugin"
MsgWrite == "Broken pipe"
MsgReset == "Connection reset by peer"
MsgTimeout == "timed out"
MsgUtf8 == "'utf-8' codec can't decode byte"
MsgJson == "Expecting value"

LocalFailure(msg) == JObj([success |-> JFalse, error |-> JStr(msg)])

NoResult == [src |-> "none", kind |-> "none", value |-> PyNone]
PeerResult(v) == [src |-> "peer", kind |-> "none", value |-> v]
LocalResult(kind, msg) == [src |-> "local", kind |-> kind, value |-> LocalFailure(msg)]
Fault == [src |-> "fault", kind |-> "fault", value |-> PyNone]

----------------------------------------------------------------------------
(* The wire format *)

NL == "\n"
CR == "\r"
SP == " "
Whitespace == {" ", "\n", "\r", "\t"}
\* recv(4096): the most bytes one read returns
RecvBufSize == 4096

VOk == JObj([success |-> JTrue])
VErr == JObj([success |-> JFalse, error |-> JStr("no process")])
VData == JObj([data |-> JStr("U+00E9")])
PeerValues == {VOk, VErr, VData, JArr}

\* the JSON text of a value, as characters
JsonText(v) ==
    CASE v = VOk -> <<"{success:true}">>
      [] v = VErr -> <<"{success:false,error:no process}">>
      [] v = VData -> <<"{data:", "U+00E9", "}">>
      [] v = JArr -> <<"[]">>

RECURSIVE Utf8Encode(_)
Utf8Encode(chars) ==
    IF chars = <<>> THEN <<>>
    ELSE (IF Head(chars) = "U+00E9" THEN <<"C3", "A9">> ELSE <<Head(chars)>>)
         \o Utf8Encode(Tail(chars))

\* bytes.decode("utf-8"): a lead byte needs its continuation byte
RECURSIVE Utf8Decode(_)
Utf8Decode(bytes) ==
    IF bytes = <<>> THEN [ok |-> TRUE, chars |-> <<>>]
    ELSE IF Head(bytes) = "A9" THEN [ok |-> FALSE, chars |-> <<>>]
    ELSE IF Head(bytes) = "C3"
         THEN IF Len(bytes) >= 2 /\ bytes[2] = "A9"
              THEN LET r == Utf8Decode(Tail(Tail(bytes)))
                   IN [ok |-> r.ok, chars |-> <<"U+00E9">> \o r.chars]
              ELSE [ok |-> FALSE, chars |-> <<>>]
    ELSE LET r == Utf8Decode(Tail(bytes))
         IN [ok |-> r.ok, chars |-> <<Head(bytes)>> \o r.chars]

RECURSIVE LStrip(_)
LStrip(chars) ==
    IF chars # <<>> /\ Head(chars) \in Whitespace THEN LStrip(Tail(chars)) ELSE chars

RECURSIVE RStrip(_)
RStrip(chars) ==
    IF chars # <<>> /\ chars[Len(chars)] \in Whitespace
    THEN RStrip(SubSeq(chars, 1, Len(chars) - 1))
    ELSE chars

\* str.strip()
Strip(chars) == RStrip(LStrip(chars))

\* json.loads: the value whose text this is, or a decode error
JsonLoads(chars) ==
    IF \E v \in PeerValues : JsonText(v) = chars
    THEN [ok |-> TRUE, value |-> CHOOSE v \in PeerValues : JsonText(v) = chars]
    ELSE [ok |-> FALSE, value |-> PyNone]

Encode(v) == Utf8Encode(JsonText(v))
Line(v) == Encode(v) \o <<NL>>

\* the bursts of bytes the plugin's end may deliver: whole response lines, a line
\* in two parts (one split inside a two-byte character), a line with blanks
\* around it and CR LF, and a value with no line terminator
Segments ==
    {Line(v) : v \in PeerValues}
    \cup {<<"{data:", "C3">>, <<"A9", "}", NL>>,
          <<SP>> \o Encode(VOk) \o <<CR, NL>>,
          Encode(JArr)}

----------------------------------------------------------------------------
(* Tool dispatch: call_tool *)

DeclaredTools ==
    {"IsConnected", "GetStatus", "GetProcessInfo", "ReadMemory", "WriteMemory",
     "GetModules", "GetSections", "GetClasses", "GetClass", "GetNodes",
     "ParseAddress", "CreateClass", "AddNode", "RenameNode", "SetComment",
     "ChangeNodeType"}

Inv(n, a) == [name |-> n, arguments |-> a]

\* tool invocations as the host delivers them: arguments conform to the tool's
\* inputSchema (required present, optional present or not, integers where declared)
Invocations ==
    {Inv(n, EmptyDict) : n \in {"IsConnected", "GetStatus", "GetProcessInfo",
                                "GetModules", "GetSections", "GetClasses",
                                "NoSuchTool"}}
    \cup {Inv("ReadMemory", [address |-> JStr("0x1000"), size |-> JInt("16")]),
          Inv("WriteMemory", [address |-> JStr("0x1000"), data |-> JStr("90 90")]),
          Inv("GetClass", [identifier |-> JStr("Player")]),
          Inv("GetNodes", [class_id |-> JStr("Player")]),
          Inv("ParseAddress", [formula |-> JStr("<game.exe>+10")]),
          Inv("CreateClass", [name |-> JStr("Player")]),
          Inv("CreateClass", [name |-> JStr("Player"), address |-> JStr("0x1000")]),
          Inv("AddNode", [class_id |-> JStr("Player"), type |-> JStr("Int32")]),
          Inv("AddNode", [class_id |-> JStr("Player"), type |-> JStr("Int32"),
                          name |-> JStr("health")]),
          Inv("RenameNode", [class_id |-> JStr("Player"), node_index |-> JInt("0"),
                             name |-> JStr("health")]),
          Inv("SetComment", [class_id |-> JStr("Player"), node_index |-> JInt("0"),
                             comment |-> JStr("hp")]),
          Inv("ChangeNodeType", [class_id |-> JStr("Player"), node_index |-> JInt("0"),
                                 type |-> JStr("Int32")])}

\* the send_command call a tool makes: the command and the args it passes
\* (isNone: the call passes no args and the parameter defaults to None)
Cmd(c) == [known |-> TRUE, command |-> c, isNone |-> TRUE, args |-> EmptyDict]
CmdArgs(c, a) == [known |-> TRUE, command |-> c, isNone |-> FALSE, args |-> a]

Dispatch(name, a) ==
    CASE name = "IsConnected" -> Cmd("ping")
      [] name = "GetStatus" -> Cmd("get_status")
      [] name = "GetProcessInfo" -> Cmd("get_process_info")
      [] name = "ReadMemory" ->
            CmdArgs("read_memory", [address |-> a.address, size |-> PyStr(a.size)])
      [] name = "WriteMemory" ->
            CmdArgs("write_memory", [address |-> a.address, data |-> a.data])
      [] name = "GetModules" -> Cmd("get_modules")
      [] name = "GetSections" -> Cmd("get_sections")
      [] name = "GetClasses" -> Cmd("get_classes")
      [] name = "GetClass" -> CmdArgs("get_class", [id |-> a.identifier])
      [] name = "GetNodes" -> CmdArgs("get_nodes", [class_id |-> a.class_id])
      [] name = "ParseAddress" -> CmdArgs("parse_address", [formula |-> a.formula])
      [] name = "CreateClass" ->
            CmdArgs("create_class",
                    IF "address" \in DOMAIN a
                    THEN [name |-> a.name, address |-> a.address]
                    ELSE [name |-> a.name])
      [] name = "AddNode" ->
            CmdArgs("add_node",
                    IF "name" \in DOMAIN a
                    THEN [class_id |-> a.class_id, type |-> a.type, name |-> a.name]
                    ELSE [class_id |-> a.class_id, type |-> a.type])
      [] name = "RenameNode" ->
            CmdArgs("rename_node", [class_id |-> a.class_id,
                                    node_index |-> a.node_index, name |-> a.name])
      [] name = "SetComment" ->
            CmdArgs("set_comment", [class_id |-> a.class_id,
                                    node_index |-> a.node_index, comment |-> a.comment])
      [] name = "ChangeNodeType" ->
            CmdArgs("change_node_type", [class_id |-> a.class_id,
                                         node_index |-> a.node_index, type |-> a.type])
      [] OTHER -> [known |-> FALSE, command |-> "", isNone |-> TRUE, args |-> EmptyDict]

\* `args or {}`: None and the empty mapping both give {}
ArgsOrEmpty(isNone, args) == IF isNone \/ DOMAIN args = {} THEN EmptyDict ELSE args

\* the request object of line 59
Request(command, isNone, args) ==
    [command |-> command, args |-> ArgsOrEmpty(isNone, args)]

\* what call_tool gives back: a text, or the exception it raises
Text(fmt, arg) == [kind |-> "text", fmt |-> fmt, arg |-> arg]
Raises(exc) == [kind |-> "raise", fmt |-> exc, arg |-> PyNone]
NoOutput == [kind |-> "none", fmt |-> "", arg |-> PyNone]

\* lines 307-311 for IsConnected, json.dumps(result, indent=2) for the others
Render(name, result) ==
    IF result.src = "fault" THEN Raises("propagated")
    ELSE IF name = "IsConnected"
    THEN IF ~IsDict(result.value) THEN Raises("AttributeError")
         ELSE IF Truthy(DictGet(result.value, "success", PyNone))
         THEN Text("Connected to ReClass.NET plugin", PyNone)
         ELSE Text("Not connected: ",
                   DictGet(result.value, "error", JStr("Unknown error")))
    ELSE Text("json.dumps", result.value)

----------------------------------------------------------------------------
(* The command relay: ReClassClient *)

NoSock == "None"
Socket == "socket"

\* connect() letting the exception of a refused connection out
connect_uncaught(ok) ==
    [sock |-> IF ok THEN Socket ELSE NoSock, ret |-> ok, raised |-> ~ok]

\* connect() leaving the socket it made in self.sock when connecting fails
connect_keeps_socket(ok) == [sock |-> Socket, ret |-> ok, raised |-> FALSE]

\* connect(): the socket it leaves in self.sock, what it returns, whether it raises
connect(ok) ==
    [sock |-> IF ok THEN Socket ELSE NoSock, ret |-> ok, raised |-> FALSE]

\* disconnect() dropping the socket inside the try, after close()
disconnect_inside_try(s, closeRaises) ==
    [sock |-> IF closeRaises THEN s ELSE NoSock, raised |-> FALSE]

\* disconnect(): close() may raise; the socket is dropped either way
disconnect(s, closeRaises) == [sock |-> NoSock, raised |-> FALSE]

\* the except clause returning the failure object without disconnecting
OnException_keeps_connection(s, kind, msg, closeRaises) ==
    [sock |-> s, result |-> LocalResult(kind, msg)]

\* the except clause of send_command: disconnect, then the failure object
OnException(s, kind, msg, closeRaises) ==
    LET d == disconnect(s, closeRaises)
    IN [sock |-> d.sock,
        result |-> IF d.raised THEN Fault ELSE LocalResult(kind, msg)]

\* the except clause starting send_command over
AfterExcept_retry == "sc"

\* after the except clause send_command returns
AfterExcept == "ret"

\* response = chunk
Accumulate_last_chunk(response, chunk) == chunk

\* response += chunk
Accumulate(response, chunk) == response \o chunk

\* a read that takes the timeout for the end of the stream
RecvOutcome_timeout_ends_loop(w, ps) ==
    CASE ps = "reset" -> "reset"
      [] ps # "reset" /\ w # <<>> -> "data"
      [] OTHER -> "eof"

\* what one recv() does: the socket keeps the timeout connect() set on it
\* (settimeout(10)), so a read with nothing to read and the peer still there
\* raises a timeout when that time is up
RecvOutcome(w, ps) ==
    CASE ps = "reset" -> "reset"
      [] ps # "reset" /\ w # <<>> -> "data"
      [] ps = "closed" /\ w = <<>> -> "eof"
      [] OTHER -> "timeout"

\* call_tool is a coroutine without an await: the event loop starts the next
\* handler only when no handler is inside call_tool
Active(t) == pc[t] \notin {"idle", "pending"}

\* a handler that awaits inside send_command lets the next one start
HandlerMayStart_await(t) == TRUE

HandlerMayStart(t) == \A u \in Tasks : ~Active(u)

NoFrame ==
    [name |-> "", arguments |-> EmptyDict, command |-> "", isNone |-> TRUE,
     args |-> EmptyDict, response |-> <<>>, rcvd |-> <<>>, nrecv |-> 0,
     result |-> NoResult, calls |-> 0, connects |-> 0, wrote |-> <<>>,
     out |-> NoOutput]

NoDisc == [n |-> 0, first |-> "none", raised |-> FALSE]

Min(a, b) == IF a < b THEN a ELSE b

Init ==
    /\ sock = NoSock
    /\ pc = [t \in Tasks |-> "idle"]
    /\ frame = [t \in Tasks |-> NoFrame]
    /\ wire = <<>>
    /\ peerState = "open"
    /\ inflight = 0
    /\ lastFailed = FALSE
    /\ disc = NoDisc


\* a discarded or a fresh connection: nothing on it
FreshChannel ==
    /\ wire' = <<>>
    /\ peerState' = "open"
    /\ inflight' = 0

chan == <<wire, peerState, inflight>>

\* the host delivers a tool invocation; its handler waits for the event loop
Deliver(t) ==
    /\ pc[t] = "idle"
    /\ pc' = [pc EXCEPT ![t] = "pending"]
    /\ UNCHANGED <<sock, frame, chan, lastFailed, disc>>

\* call_tool starts: a declared tool calls send_command once
CallTool(t, i) ==
    /\ pc[t] = "pending"
    /\ HandlerMayStart(t)
    /\ Dispatch(i.name, i.arguments).known
    /\ LET d == Dispatch(i.name, i.arguments)
       IN frame' = [frame EXCEPT ![t] =
                       [NoFrame EXCEPT !.name = i.name, !.arguments = i.arguments,
                                       !.command = d.command, !.isNone = d.isNone,
                                       !.args = d.args, !.calls = 1]]
    /\ pc' = [pc EXCEPT ![t] = "sc"]
    /\ disc' = NoDisc
    /\ UNCHANGED <<sock, chan, lastFailed>>

\* call_tool with a name it does not know: the else branch, no send_command
CallUnknown(t, i) ==
    /\ pc[t] = "pending"
    /\ HandlerMayStart(t)
    /\ ~Dispatch(i.name, i.arguments).known
    /\ pc' = [pc EXCEPT ![t] = "done"]
    /\ frame' = [frame EXCEPT ![t] =
                    [NoFrame EXCEPT !.name = i.name, !.arguments = i.arguments,
                                    !.out = Text("Unknown tool: ", JStr(i.name))]]
    /\ UNCHANGED <<sock, chan, lastFailed, disc>>

\* send_command finds no connection and calls connect()
Connect(t, ok) ==
    /\ pc[t] = "sc"
    /\ sock = NoSock
    /\ LET c == connect(ok)
       IN /\ sock' = c.sock
          /\ IF c.raised
             THEN /\ frame' = [frame EXCEPT ![t].connects = @ + 1, ![t].result = Fault]
                  /\ pc' = [pc EXCEPT ![t] = "ret"]
             ELSE IF ~c.ret
             THEN /\ frame' = [frame EXCEPT ![t].connects = @ + 1,
                                            ![t].result = LocalResult("connection", MsgConnect)]
                  /\ pc' = [pc EXCEPT ![t] = "ret"]
             ELSE /\ frame' = [frame EXCEPT ![t].connects = @ + 1]
                  /\ pc' = [pc EXCEPT ![t] = "send"]
    /\ FreshChannel
    /\ lastFailed' = IF connect(ok).ret THEN lastFailed ELSE FALSE
    /\ UNCHANGED disc

\* send_command finds a connection and goes on to write on it
Reuse(t) ==
    /\ pc[t] = "sc"
    /\ sock # NoSock
    /\ pc' = [pc EXCEPT ![t] = "send"]
    /\ UNCHANGED <<sock, frame, chan, lastFailed, disc>>

\* an exception inside the try block of send_command
ExceptStep(t, kind, msg, closeRaises) ==
    LET h == OnException(sock, kind, msg, closeRaises)
    IN /\ sock' = h.sock
       /\ frame' = [frame EXCEPT ![t].result = h.result]
       /\ pc' = [pc EXCEPT ![t] = AfterExcept]
       /\ lastFailed' = TRUE
       /\ IF h.sock = NoSock THEN FreshChannel ELSE UNCHANGED chan
       /\ UNCHANGED disc

\* sendall of the request line succeeds
Send(t) ==
    /\ pc[t] = "send"
    /\ peerState # "reset"
    /\ frame' = [frame EXCEPT
                    ![t].wrote = Append(@, <<Request(frame[t].command, frame[t].isNone,
                                                     frame[t].args), NL>>),
                    ![t].response = <<>>]
    /\ pc' = [pc EXCEPT ![t] = "recv"]
    /\ inflight' = inflight + 1
    /\ UNCHANGED <<sock, wire, peerState, lastFailed, disc>>

\* sendall raises: the peer has closed or reset the connection, or the socket's
\* timeout ran out before the bytes were taken
SendFails(t, closeRaises) ==
    /\ pc[t] = "send"
    /\ ExceptStep(t, "transport",
                  CASE peerState = "reset" -> MsgReset
                    [] peerState = "closed" -> MsgWrite
                    [] OTHER -> MsgTimeout,
                  closeRaises)

\* recv returns a chunk: what has arrived, up to the buffer size
Recv(t) ==
    /\ pc[t] = "recv"
    /\ RecvOutcome(wire, peerState) = "data"
    /\ LET n == Min(Len(wire), RecvBufSize)
           chunk == SubSeq(wire, 1, n)
           response == Accumulate(frame[t].response, chunk)
       IN /\ frame' = [frame EXCEPT ![t].response = response,
                                    ![t].rcvd = @ \o chunk,
                                    ![t].nrecv = @ + 1]
          /\ pc' = [pc EXCEPT ![t] = IF \E k \in 1..Len(response) : response[k] = NL
                                     THEN "decode" ELSE "recv"]
    /\ wire' = SubSeq(wire, Min(Len(wire), RecvBufSize) + 1, Len(wire))
    /\ UNCHANGED <<sock, peerState, inflight, lastFailed, disc>>

\* recv returns b"": the peer closed the stream; the loop ends
RecvEOF(t) ==
    /\ pc[t] = "recv"
    /\ RecvOutcome(wire, peerState) = "eof"
    /\ pc' = [pc EXCEPT ![t] = "decode"]
    /\ UNCHANGED <<sock, frame, chan, lastFailed, disc>>

\* recv raises: the peer reset the connection, or the socket's timeout ran out
RecvRaises(t, closeRaises) ==
    /\ pc[t] = "recv"
    /\ RecvOutcome(wire, peerState) \in {"reset", "timeout"}
    /\ ExceptStep(t, "transport",
                  IF RecvOutcome(wire, peerState) = "reset" THEN MsgReset ELSE MsgTimeout,
                  closeRaises)

\* json.loads(response.decode("utf-8").strip()) gives the value send_command returns
Decode(t) ==
    /\ pc[t] = "decode"
    /\ Utf8Decode(frame[t].response).ok
    /\ JsonLoads(Strip(Utf8Decode(frame[t].response).chars)).ok
    /\ frame' = [frame EXCEPT ![t].result =
                    PeerResult(JsonLoads(Strip(Utf8Decode(frame[t].response).chars)).value)]
    /\ pc' = [pc EXCEPT ![t] = "ret"]
    /\ inflight' = IF inflight > 0 THEN inflight - 1 ELSE 0
    /\ lastFailed' = FALSE
    /\ UNCHANGED <<sock, wire, peerState, disc>>

\* ... or raises: the bytes are not UTF-8, or the text is not JSON
DecodeFails(t, closeRaises) ==
    /\ pc[t] = "decode"
    /\ LET u == Utf8Decode(frame[t].response)
       IN IF ~u.ok
          THEN ExceptStep(t, "protocol", MsgUtf8, closeRaises)
          ELSE /\ ~JsonLoads(Strip(u.chars)).ok
               /\ ExceptStep(t, "protocol", MsgJson, closeRaises)

\* send_command has returned: call_tool renders the result and returns it
Return(t) ==
    /\ pc[t] = "ret"
    /\ frame' = [frame EXCEPT ![t].out = Render(frame[t].name, frame[t].result)]
    /\ pc' = [pc EXCEPT ![t] = "done"]
    /\ UNCHANGED <<sock, chan, lastFailed, disc>>

\* the event loop takes the handler's output; the task is over
Finish(t) ==
    /\ pc[t] = "done"
    /\ frame' = [frame EXCEPT ![t] = NoFrame]
    /\ pc' = [pc EXCEPT ![t] = "idle"]
    /\ UNCHANGED <<sock, chan, lastFailed, disc>>

\* the relay's owner calls disconnect() between tool invocations
Disconnect(closeRaises) ==
    /\ \A t \in Tasks : ~Active(t)
    /\ disc.n < MaxDisconnects
    /\ LET d == disconnect(sock, closeRaises)
       IN /\ sock' = d.sock
          /\ disc' = [n |-> disc.n + 1,
                      first |-> IF disc.n > 0 THEN disc.first
                                ELSE IF sock = NoSock THEN "absent"
                                ELSE IF closeRaises THEN "present, close raises"
                                ELSE "present",
                      raised |-> disc.raised \/ (sock # NoSock /\ d.raised)]
          /\ IF sock # NoSock /\ d.sock = NoSock THEN FreshChannel ELSE UNCHANGED chan
    /\ UNCHANGED <<pc, frame, lastFailed>>

RECURSIVE SumLen(_)
SumLen(ts) ==
    IF ts = {} THEN 0
    ELSE LET t == CHOOSE u \in ts : TRUE
         IN (IF pc[t] = "recv" THEN Len(frame[t].rcvd) ELSE 0) + SumLen(ts \ {t})

\* a burst of the plugin's bytes reaches the relay's socket; the plugin writes
\* only while the relay waits for the response to a request
PeerSend(seg) ==
    /\ sock # NoSock
    /\ peerState = "open"
    /\ \E t \in Tasks : pc[t] = "recv"
    /\ SumLen(Tasks) + Len(wire) + Len(seg) <= MaxWire
    /\ wire' = wire \o seg
    /\ UNCHANGED <<sock, pc, frame, peerState, inflight, lastFailed, disc>>

\* the plugin closes its end of the connection
PeerClose ==
    /\ sock # NoSock
    /\ peerState = "open"
    /\ peerState' = "closed"
    /\ UNCHANGED <<sock, pc, frame, wire, inflight, lastFailed, disc>>

\* the plugin goes away: the connection is reset, unread bytes are lost
PeerReset ==
    /\ sock # NoSock
    /\ peerState # "reset"
    /\ peerState' = "reset"
    /\ wire' = <<>>
    /\ UNCHANGED <<sock, pc, frame, inflight, lastFailed, disc>>

Next ==
    \/ \E t \in Tasks : Deliver(t)
    \/ \E t \in Tasks, i \in Invocations : CallTool(t, i)
    \/ \E t \in Tasks, i \in Invocations : CallUnknown(t, i)
    \/ \E t \in Tasks, ok \in BOOLEAN : Connect(t, ok)
    \/ \E t \in Tasks : Reuse(t)
    \/ \E t \in Tasks : Send(t)
    \/ \E t \in Tasks, closeRaises \in BOOLEAN : SendFails(t, closeRaises)
    \/ \E t \in Tasks : Recv(t)
    \/ \E t \in Tasks : RecvEOF(t)
    \/ \E t \in Tasks, closeRaises \in BOOLEAN : RecvRaises(t, closeRaises)
    \/ \E t \in Tasks : Decode(t)
    \/ \E t \in Tasks, closeRaises \in BOOLEAN : DecodeFails(t, closeRaises)
    \/ \E t \in Tasks : Return(t)
    \/ \E t \in Tasks : Finish(t)
    \/ \E closeRaises \in BOOLEAN : Disconnect(closeRaises)
    \/ \E seg \in Segments : PeerSend(seg)
    \/ PeerClose
    \/ PeerReset

Spec == Init /\ [][Next]_vars

----------------------------------------------------------------------------
(* The claims *)

Returned(t) == pc[t] = "ret"
Res(t) == frame[t].result

\* C1: a send_command that hits a transport or protocol error after the connection
\* exists returns with the connection absent, and the send_command after it has
\* made its connect() attempt by the time it writes.
C1_FailureDiscardsConnection ==
    /\ \A t \in Tasks :
          (Returned(t) /\ Res(t).src = "local" /\ Res(t).kind \in {"transport", "protocol"})
              => sock = NoSock
    /\ \A t \in Tasks :
          (lastFailed /\ pc[t] \in {"send", "recv", "decode"}) => frame[t].connects = 1

C1_Witness ==
    \E t \in Tasks : lastFailed /\ pc[t] = "recv" /\ frame[t].connects = 1
                     /\ Len(frame[t].wrote) = 1

\* C2: send_command always returns a value, never a fault, and a connection,
\* transport or protocol failure is returned as an object with success = false
\* and an error string.
C2_NeverPropagates ==
    \A t \in Tasks :
        Returned(t) =>
            /\ Res(t).src \in {"peer", "local"}
            /\ Res(t).src = "local" =>
                  /\ Res(t).kind \in {"connection", "transport", "protocol"}
                  /\ IsDict(Res(t).value)
                  /\ DictGet(Res(t).value, "success", PyNone) = JFalse
                  /\ DictGet(Res(t).value, "error", PyNone).t = "str"

C2_Witness ==
    \E t \in Tasks : Returned(t) /\ Res(t).kind = "protocol"
                     /\ Res(t).value = LocalFailure(MsgUtf8)

\* C3: after one disconnect() and after a second one in a row, nothing was raised
\* and the connection is absent.
C3_DisconnectIdempotent == disc.n >= 1 => (sock = NoSock /\ ~disc.raised)

C3_Witness == disc.n = 2 /\ disc.first = "present, close raises"

\* the forms of a single line carrying value v: LF or CR LF, blanks around it
LineForms(v) == {Line(v), <<SP>> \o Encode(v) \o <<CR, NL>>}

\* C4: when the bytes a send_command read, in however many chunks, are one
\* newline-terminated line encoding a value, it returns that value.
C4_SingleLineDecoded ==
    \A t \in Tasks : \A v \in PeerValues :
        (Returned(t) /\ frame[t].rcvd \in LineForms(v)) => Res(t) = PeerResult(v)

C4_Witness ==
    \E t \in Tasks : Returned(t) /\ frame[t].rcvd = Line(VData) /\ frame[t].nrecv = 2
                     /\ Res(t) = PeerResult(VData)

\* C5: at most one request is in flight on the connection, also when the host
\* has delivered further tool invocations.
C5_OneInFlight == inflight <= 1

C5_Witness ==
    \E t, u \in Tasks : t # u /\ pc[t] = "recv" /\ pc[u] = "pending" /\ inflight = 1

\* C6 as the claim states it: IsConnected gives the success line when the result
\* carries success = true, and for any other result the failure line with the
\* result's error field, or "Unknown error" when there is none.
C6_IsConnectedAsClaimed ==
    \A t \in Tasks :
        (pc[t] = "done" /\ frame[t].name = "IsConnected") =>
            frame[t].out =
                IF IsDict(Res(t).value) /\ DictGet(Res(t).value, "success", PyNone) = JTrue
                THEN Text("Connected to ReClass.NET plugin", PyNone)
                ELSE Text("Not connected: ",
                          IF IsDict(Res(t).value)
                          THEN DictGet(Res(t).value, "error", JStr("Unknown error"))
                          ELSE JStr("Unknown error"))

\* C7 as the claim states it: every value of the args mapping a declared tool
\* hands to the relay, and of the request line written, is a string.
C7_ArgsAreStrings ==
    \A t \in Tasks :
        (Active(t) /\ frame[t].name \in DeclaredTools) =>
            /\ \A k \in DOMAIN frame[t].args : frame[t].args[k].t = "str"
            /\ \A n \in 1..Len(frame[t].wrote) :
                  \A k \in DOMAIN frame[t].wrote[n][1].args :
                      frame[t].wrote[n][1].args[k].t = "str"

\* a send_command waiting for a response of which no byte has come, the peer
\* neither sending nor closing
WaitsOnSilentPeer(t) ==
    pc[t] = "recv" /\ frame[t].rcvd = <<>> /\ wire = <<>> /\ peerState = "open"

\* C8 as the claim states it: while the peer neither sends nor closes, the
\* send_command waiting for the response does not return.
C8_BlocksForever ==
    [][\A t \in Tasks : WaitsOnSilentPeer(t) => pc'[t] = "recv"]_vars

\* C8 amended: the timeout connect() sets stays on the socket, so the read of a
\* send_command whose peer neither sends nor closes ends in a timeout: the
\* connection is discarded and the failure object "timed out" is returned.
C8_ReadTimesOut ==
    [][\A t \in Tasks :
          (WaitsOnSilentPeer(t) /\ pc'[t] # "recv") =>
              /\ pc'[t] = "ret"
              /\ frame'[t].result = LocalResult("transport", MsgTimeout)
              /\ sock' = NoSock]_vars

C8_Witness ==
    \E t \in Tasks : Returned(t) /\ Res(t) = LocalResult("transport", MsgTimeout)
                     /\ frame[t].rcvd = <<>> /\ Len(frame[t].wrote) = 1

C10_ConnectionMatchesResult ==
    \A t \in Tasks :
        Returned(t) =>
            /\ sock # NoSock <=> Res(t).src = "peer"
            /\ sock = NoSock <=> Res(t).src = "local"
            /\ Res(t).kind = "connection" => (frame[t].wrote = <<>> /\ sock = NoSock)

C10_Witness ==
    \E t \in Tasks : Returned(t) /\ Res(t).kind = "connection" /\ sock = NoSock
                     /\ frame[t].connects = 1

====
